---------------------------- MODULE Spec2Model ----------------------------
(***************************************************************************)
(* crafty (src/src/main.rs): a CLI that resolves package archives in the   *)
(* ArchCraft GitHub listing, installs them through pacman and keeps a      *)
(* ledger (installed.json) of the names it installed.                      *)
(*                                                                         *)
(* Strings are sequences of one-character strings, so that the three       *)
(* regular expressions of the program and its case folding are computed    *)
(* character by character.  Option<T> is a sequence of length 0 or 1.      *)
(***************************************************************************)
EXTENDS Integers, Sequences, FiniteSets, TLC

VARIABLES
    remote,      \* the listing the GitHub page serves: Seq of items
    ledgerFile,  \* ~/.config/.crafty/installed.json: the persisted set
    lastWriter,  \* history: the process whose save wrote ledgerFile last (0: none)
    proc,        \* per CLI process: position, arguments, locals, history
    fnCat,       \* function-level runs: the items handed to the matcher
    fnOp,        \* function-level runs: which matcher operation ran
    fnIn,        \* function-level runs: its package name or keyword
    fnOut        \* function-level runs: what it returned

vars == <<remote, ledgerFile, lastWriter, proc, fnCat, fnOp, fnIn, fnOut>>

---------------------------------------------------------------------------
(* Option<T> *)
None == <<>>
Some(x) == <<x>>

(* Bounds *)
MaxCat == 3

Procs == {1, 2}

---------------------------------------------------------------------------
(* Text *)
S_archcraft_ == <<"a", "r", "c", "h", "c", "r", "a", "f", "t", "-">>
S_ext == <<".", "p", "k", "g", ".", "t", "a", "r", ".", "z", "s", "t">>
S_any == <<"a", "n", "y">>
S_x86_64 == <<"x", "8", "6", "_", "6", "4">>
Digits == {"0", "1", "2", "3", "4", "5", "6", "7", "8", "9"}
Uppers == <<"A", "B", "C", "D", "E", "F", "G", "H", "I", "J", "K", "L", "M", "N", "O", "P", "Q", "R", "S", "T", "U", "V", "W", "X", "Y", "Z">>
Lowers == <<"a", "b", "c", "d", "e", "f", "g", "h", "i", "j", "k", "l", "m", "n", "o", "p", "q", "r", "s", "t", "u", "v", "w", "x", "y", "z">>

(* Sample archive names of the listing, package names and keywords *)
F_archcraft_fish == <<"a", "r", "c", "h", "c", "r", "a", "f", "t", "-", "f", "i", "s", "h", "-", "3", ".", "6", ".", "1", "-", "1", "-", "x", "8", "6", "_", "6", "4", ".", "p", "k", "g", ".", "t", "a", "r", ".", "z", "s", "t">>
F_htop == <<"h", "t", "o", "p", "-", "3", ".", "2", ".", "2", "-", "2", "-", "x", "8", "6", "_", "6", "4", ".", "p", "k", "g", ".", "t", "a", "r", ".", "z", "s", "t">>
F_notes == <<"n", "o", "t", "e", "s", ".", "t", "x", "t">>
F_foo == <<"f", "o", "o", "-", "1", ".", ".", "2", "-", "1", "-", "a", "n", "y", ".", "p", "k", "g", ".", "t", "a", "r", ".", "z", "s", "t">>
F_fish == <<"f", "i", "s", "h", "-", "3", ".", "7", "-", "1", "-", "a", "n", "y", ".", "p", "k", "g", ".", "t", "a", "r", ".", "z", "s", "t">>
F_Fish_top == <<"F", "i", "s", "h", "-", "t", "o", "p", "-", "1", ".", "0", "-", "2", "-", "a", "n", "y", ".", "p", "k", "g", ".", "t", "a", "r", ".", "z", "s", "t">>
N_fish == <<"f", "i", "s", "h">>
N_htop == <<"h", "t", "o", "p">>
N_foo == <<"f", "o", "o">>
N_vim == <<"v", "i", "m">>
N_archcraft_fish == <<"a", "r", "c", "h", "c", "r", "a", "f", "t", "-", "f", "i", "s", "h">>
N_Fish_top == <<"F", "i", "s", "h", "-", "t", "o", "p">>
K_empty == <<>>
K_top == <<"t", "o", "p">>
K_TOP == <<"T", "O", "P">>
K_FiSh == <<"F", "i", "S", "h">>
K_arch == <<"a", "r", "c", "h">>
K_x86 == <<"x", "8", "6">>
K_pkg == <<"p", "k", "g">>
K_dot == <<".">>
K_3 == <<"3">>

Files == {F_archcraft_fish, F_htop, F_notes, F_foo, F_fish, F_Fish_top}
Names == {N_fish, N_htop, N_foo, N_vim, N_archcraft_fish, N_Fish_top}
Keywords == {K_empty, K_top, K_TOP, K_FiSh, K_arch, K_x86, K_pkg, K_dot, K_3}

(* An item of /payload/tree/items, seen through item.get("name").as_str():  *)
(* None for an item without a name string.                                 *)
Items == {Some(f) : f \in Files} \cup {None}
Catalogs == UNION {[1..n -> Items] : n \in 0..MaxCat}

---------------------------------------------------------------------------
(* String primitives *)
Max(S) == CHOOSE x \in S : \A y \in S : y <= x
Min(S) == CHOOSE x \in S : \A y \in S : x <= y

starts_with(s, pre) ==
    /\ Len(pre) <= Len(s)
    /\ SubSeq(s, 1, Len(pre)) = pre

ends_with(s, suf) ==
    /\ Len(suf) <= Len(s)
    /\ SubSeq(s, Len(s) - Len(suf) + 1, Len(s)) = suf

contains(s, pat) ==
    \E i \in 0..(Len(s) - Len(pat)) : SubSeq(s, i + 1, i + Len(pat)) = pat

lower_char(c) ==
    IF \E i \in 1..Len(Uppers) : Uppers[i] = c
    THEN Lowers[CHOOSE i \in 1..Len(Uppers) : Uppers[i] = c]
    ELSE c

to_lowercase(s) == [i \in 1..Len(s) |-> lower_char(s[i])]

(* Regex pieces *)
\* \d+
re_digits(s) == Len(s) >= 1 /\ \A i \in 1..Len(s) : s[i] \in Digits

\* [\d\.]+
re_ver_class(s) == Len(s) >= 1 /\ \A i \in 1..Len(s) : s[i] \in Digits \cup {"."}

\* \d+(\.\d+)*
re_ver_groups(s) ==
    /\ re_ver_class(s)
    /\ s[1] # "." /\ s[Len(s)] # "."
    /\ \A i \in 1..(Len(s) - 1) : ~(s[i] = "." /\ s[i + 1] = ".")

\* (any|x86_64)
re_arch_alt(s) == s \in {S_any, S_x86_64}

\* [^-]+
re_arch_nodash(s) == Len(s) >= 1 /\ \A i \in 1..Len(s) : s[i] # "-"

\* The version and the architecture part of a pattern, by the way the
\* pattern writes them
re_ver(how, s) == IF how = "groups" THEN re_ver_groups(s) ELSE re_ver_class(s)
re_arch(how, s) == IF how = "nodash" THEN re_arch_nodash(s) ELSE re_arch_alt(s)

\* <ver>-\d+-<arch>\.pkg\.tar\.zst$ applied to the text after "<name>-"
re_tail(t, ver, arch) ==
    /\ ends_with(t, S_ext)
    /\ LET body == SubSeq(t, 1, Len(t) - Len(S_ext))
       IN  \E i \in 1..Len(body) : \E j \in (i + 1)..Len(body) :
               /\ body[i] = "-" /\ body[j] = "-"
               /\ re_ver(ver, SubSeq(body, 1, i - 1))
               /\ re_digits(SubSeq(body, i + 1, j - 1))
               /\ re_arch(arch, SubSeq(body, j + 1, Len(body)))

\* ^(.+)-<tail>: the greedy group takes the longest text that lets the
\* rest match; None when nothing matches.
re_capture(s, ver, arch) ==
    LET ends == {n \in 1..(Len(s) - 1) :
                    /\ s[n + 1] = "-"
                    /\ re_tail(SubSeq(s, n + 2, Len(s)), ver, arch)}
    IN  IF ends = {} THEN None ELSE Some(SubSeq(s, 1, Max(ends)))

\* main.rs:161  ^(?P<name>.+)-\d+(\.\d+)*-\d+-[^-]+\.pkg\.tar\.zst$
re_install_name(s) == re_capture(s, "groups", "nodash")

\* main.rs:296  ^(?P<pkg_name>.+)-[\d\.]+-\d+-(any|x86_64)\.pkg\.tar\.zst$
re_keyword_pkg_name(s) == re_capture(s, "class", "alt")

\* main.rs:333  ^(.+)-[\d\.]+-\d+-(any|x86_64)\.pkg\.tar\.zst$  (is_match)
re_list_is_match(s) == re_capture(s, "class", "alt") # None

\* main.rs:261  ^(?:archcraft-)?{escape(pkg)}-[\d\.]+-\d+-(any|x86_64)\.pkg\.tar\.zst$
\* regex::escape makes pkg a literal.
re_find_is_match(pkg, s) ==
    LET lit(pre) ==
            /\ starts_with(s, pre \o pkg \o <<"-">>)
            /\ re_tail(SubSeq(s, Len(pre) + Len(pkg) + 2, Len(s)), "class", "alt")
    IN  lit(S_archcraft_) \/ lit(<<>>)

---------------------------------------------------------------------------
(* The Filename Matcher.  fetched is what get(url)...as_array() gave:      *)
(* None when the request, the markers, the JSON or the path failed.        *)

find_package_file(fetched, pkg) ==
    IF fetched = None THEN None
    ELSE LET items == fetched[1]
             hits == {i \in 1..Len(items) :
                         items[i] # None /\ re_find_is_match(pkg, items[i][1])}
         IN  IF hits = {} THEN None ELSE Some(items[Min(hits)][1])

\* Mutant: the keyword is tested against the whole file name
RECURSIVE keyword_loop_whole_name(_, _, _)
keyword_loop_whole_name(items, keyword, matching_packages) ==
    IF items = <<>> THEN matching_packages
    ELSE LET item == Head(items)
             captures == IF item = None THEN None ELSE re_keyword_pkg_name(item[1])
             push == /\ captures # None
                     /\ contains(to_lowercase(item[1]), to_lowercase(keyword))
         IN  keyword_loop_whole_name(Tail(items), keyword,
                 IF push THEN Append(matching_packages, item[1])
                 ELSE matching_packages)

RECURSIVE keyword_loop(_, _, _)
keyword_loop(items, keyword, matching_packages) ==
    IF items = <<>> THEN matching_packages
    ELSE LET item == Head(items)
             captures == IF item = None THEN None ELSE re_keyword_pkg_name(item[1])
             push == /\ captures # None
                     /\ contains(to_lowercase(captures[1]), to_lowercase(keyword))
         IN  keyword_loop(Tail(items), keyword,
                 IF push THEN Append(matching_packages, item[1])
                 ELSE matching_packages)

find_packages_by_keyword(fetched, keyword) ==
    IF fetched = None THEN None
    ELSE Some(keyword_loop(fetched[1], keyword, <<>>))

RECURSIVE filter_map_names(_)
filter_map_names(items) ==
    IF items = <<>> THEN <<>>
    ELSE LET item == Head(items)
             rest == filter_map_names(Tail(items))
         IN  IF item # None /\ re_list_is_match(item[1])
             THEN <<item[1]>> \o rest ELSE rest

get_all_packages(fetched) ==
    IF fetched = None THEN None ELSE Some(filter_map_names(fetched[1]))

\* main.rs:161-165: the name install records for a resolved file
pkg_real_name(package_file) ==
    LET caps == re_install_name(package_file)
    IN  IF caps = None THEN package_file ELSE caps[1]

---------------------------------------------------------------------------
(* The CLI processes *)

\* First bytes of a downloaded body: a zstd frame, a zip file, an empty body
ZstdBytes == <<40, 181, 47, 253, 0>>
ZipBytes == <<80, 75, 3, 4, 0>>
Payloads == {ZstdBytes, ZipBytes, <<>>}

\* main.rs:235-241; read is fs::read(path): None when it fails
is_valid_zst(read) ==
    IF read = None THEN FALSE ELSE starts_with(read[1], <<40, 181, 47, 253>>)

\* The listings the page serves in the state-machine runs
ScenarioListing == <<Some(F_archcraft_fish), Some(F_htop), Some(F_notes)>>
DriftListing == <<Some(F_foo), None, Some(F_fish), Some(F_archcraft_fish)>>
Listings == {ScenarioListing, DriftListing}

\* What a user types
InstallArgs == {N_fish, N_htop, N_foo, N_vim, N_archcraft_fish}
UpgradeArgs == {<<>>, N_fish, N_htop, N_archcraft_fish}
SearchArgs == {K_empty, K_TOP, K_arch}
RemoveArgs == {N_fish, N_htop, N_archcraft_fish, F_foo}

IdleProc ==
    [pc |-> "idle", cmd |-> "none", arg |-> <<>>,
     pkg |-> <<>>, package_file |-> None, bytes |-> <<>>,
     pkg_real_name |-> <<>>, db |-> {},
     installed |-> {}, todo |-> {}, called |-> {},
     log |-> <<>>, out |-> {}, listed |-> <<>>, res |-> "none",
     fetches |-> 0, downloads |-> 0, spawns |-> 0, reads |-> 0, writes |-> 0,
     installs |-> 0, ledger0 |-> {}]

Init ==
    /\ remote \in Listings
    /\ ledgerFile = {}
    /\ lastWriter = 0
    /\ proc = [p \in Procs |-> IdleProc]
    /\ fnCat = <<>> /\ fnOp = "none" /\ fnIn = <<>> /\ fnOut = None

fnVars == <<fnCat, fnOp, fnIn, fnOut>>

\* A call of install_package(name): the locals of the previous call are gone
call_install(r, name) ==
    [r EXCEPT !.pc = "install_find", !.pkg = name, !.package_file = None,
              !.bytes = <<>>, !.pkg_real_name = <<>>, !.db = {}, !.log = <<>>,
              !.res = "none", !.installs = @ + 1, !.called = @ \cup {name}]

panic(r, why) == [r EXCEPT !.pc = "panicked", !.res = why]

\* What Cli::parse() can give: the subcommand and its argument
\* (upgrade without a package is upgrade_package(""), main.rs:88)
CliInputs ==
    ({"install"} \X InstallArgs) \cup ({"upgrade"} \X UpgradeArgs)
    \cup ({"search"} \X SearchArgs) \cup ({"remove"} \X RemoveArgs)
    \cup {<<"list", <<>>>>}

\* The two subcommands that write the ledger, for the concurrent runs
WriterInputs ==
    ({"install"} \X {N_fish, N_htop, N_vim}) \cup ({"remove"} \X {N_htop})

\* main.rs:83-93
main(p, inputs) ==
    /\ proc[p].pc = "idle"
    /\ \E cli \in inputs :
          LET r == [proc[p] EXCEPT !.ledger0 = ledgerFile,
                                   !.cmd = cli[1], !.arg = cli[2]]
          IN  proc' = [proc EXCEPT ![p] =
                  CASE cli[1] = "install" -> call_install(r, cli[2])
                    [] cli[1] = "upgrade" -> [r EXCEPT !.pc = "upgrade_load"]
                    [] cli[1] = "search" -> [r EXCEPT !.pc = "search"]
                    [] cli[1] = "remove" ->
                          [r EXCEPT !.pkg = cli[2], !.pc = "remove_pacman"]
                    [] OTHER -> [r EXCEPT !.pc = "list"]]
    /\ UNCHANGED <<remote, ledgerFile, lastWriter, fnVars>>

\* Mutant: a failed fetch is tried once more
install_find_refetch(p) ==
    /\ proc[p].pc = "install_find"
    /\ \E fetched \in {None, Some(remote)} :
          LET r == [proc[p] EXCEPT !.fetches = IF fetched = None THEN @ + 2 ELSE @ + 1]
              file == find_package_file(fetched, r.pkg)
          IN  proc' = [proc EXCEPT ![p] =
                  IF file = None
                  THEN [r EXCEPT !.out = @ \cup {"not found"}, !.res = "notfound",
                                 !.pc = "install_return"]
                  ELSE [r EXCEPT !.package_file = file, !.pc = "install_download"]]
    /\ UNCHANGED <<remote, ledgerFile, lastWriter, fnVars>>

\* main.rs:100-106
install_find(p) ==
    /\ proc[p].pc = "install_find"
    /\ \E fetched \in {None, Some(remote)} :
          LET r == [proc[p] EXCEPT !.fetches = @ + 1]
              file == find_package_file(fetched, r.pkg)
          IN  proc' = [proc EXCEPT ![p] =
                  IF file = None
                  THEN [r EXCEPT !.out = @ \cup {"not found"}, !.res = "notfound",
                                 !.pc = "install_return"]
                  ELSE [r EXCEPT !.package_file = file, !.pc = "install_download"]]
    /\ UNCHANGED <<remote, ledgerFile, lastWriter, fnVars>>

\* main.rs:108-115
install_download(p) ==
    /\ proc[p].pc = "install_download"
    /\ LET r == [proc[p] EXCEPT !.downloads = @ + 1]
       IN  \/ \E b \in Payloads :
                 proc' = [proc EXCEPT ![p] =
                     [r EXCEPT !.bytes = b, !.pc = "install_validate"]]
           \/ proc' = [proc EXCEPT ![p] = panic(r, "panic_download")]
    /\ UNCHANGED <<remote, ledgerFile, lastWriter, fnVars>>

\* main.rs:117-121
install_validate(p) ==
    /\ proc[p].pc = "install_validate"
    /\ \E read \in {None, Some(proc[p].bytes)} :
          proc' = [proc EXCEPT ![p] =
              IF ~is_valid_zst(read)
              THEN [@ EXCEPT !.out = @ \cup {"not a valid zstd archive"},
                             !.res = "invalid", !.pc = "install_return"]
              ELSE [@ EXCEPT !.pc = "install_pacman"]]
    /\ UNCHANGED <<remote, ledgerFile, lastWriter, fnVars>>

\* One Command::new(..).status().expect(..): the tool, its outcome, and where
\* the handler goes on success and on a non-success exit.  "panic" is the
\* expect: the process could not be run at all.
spawn(p, tool, on_ok, on_fail, msg) ==
    \E status \in {"ok", "fail", "panic"} :
        LET r == [proc[p] EXCEPT !.spawns = IF status = "panic" THEN @ ELSE @ + 1,
                                 !.log = Append(@, <<tool, status>>)]
        IN  proc' = [proc EXCEPT ![p] =
                CASE status = "ok" -> [r EXCEPT !.pc = on_ok]
                  [] status = "fail" ->
                        IF on_fail = "install_return"
                        THEN [r EXCEPT !.pc = on_fail, !.res = "instfail",
                                       !.out = @ \cup {msg}]
                        ELSE [r EXCEPT !.pc = on_fail, !.out = @ \cup {msg}]
                  [] OTHER -> panic(r, "panic_spawn")]

\* main.rs:123-131
install_pacman(p) ==
    /\ proc[p].pc = "install_pacman"
    /\ spawn(p, "pacman", "install_record", "install_unzstd", "Pacman failed")
    /\ UNCHANGED <<remote, ledgerFile, lastWriter, fnVars>>

\* Mutant: the decompressor's exit status is not looked at
install_unzstd_unchecked(p) ==
    /\ proc[p].pc = "install_unzstd"
    /\ spawn(p, "unzstd", "install_retry", "install_retry", "Failed to decompress")
    /\ UNCHANGED <<remote, ledgerFile, lastWriter, fnVars>>

\* main.rs:132-144
install_unzstd(p) ==
    /\ proc[p].pc = "install_unzstd"
    /\ spawn(p, "unzstd", "install_retry", "install_return", "Failed to decompress")
    /\ UNCHANGED <<remote, ledgerFile, lastWriter, fnVars>>

\* main.rs:146-156
install_retry(p) ==
    /\ proc[p].pc = "install_retry"
    /\ spawn(p, "pacman", "install_record", "install_return",
             "Pacman failed to install decompressed package")
    /\ UNCHANGED <<remote, ledgerFile, lastWriter, fnVars>>

\* main.rs:50-58: a missing or corrupt file reads as the empty set
PackageDb_load == ledgerFile

\* main.rs:159-166: the success line, the recorded name, the ledger read
install_record(p) ==
    /\ proc[p].pc = "install_record"
    /\ proc' = [proc EXCEPT ![p] =
           [@ EXCEPT !.out = @ \cup {"Installed"},
                     !.pkg_real_name = pkg_real_name(proc[p].package_file[1]),
                     !.db = PackageDb_load, !.reads = @ + 1, !.pc = "db_add"]]
    /\ UNCHANGED <<remote, ledgerFile, lastWriter, fnVars>>

\* Mutant: a save merges the in-memory set into what the file holds
saved_file_merged(file, db) == file \cup db

\* main.rs:64-65: the file a save leaves is the whole in-memory set,
\* whatever the file held
saved_file(file, db) == db

\* main.rs:60-66, reached with the mutated set r.db; a failed create_dir_all
\* or write panics and is taken to leave the file as it was
PackageDb_save(p, r, next) ==
    \/ /\ ledgerFile' = saved_file(ledgerFile, r.db)
       /\ lastWriter' = p
       /\ proc' = [proc EXCEPT ![p] =
              [r EXCEPT !.writes = @ + 1, !.res = "ok", !.pc = next]]
    \/ /\ proc' = [proc EXCEPT ![p] = panic(r, "panic_save")]
       /\ UNCHANGED <<ledgerFile, lastWriter>>

\* main.rs:68-71, from main.rs:167
db_add(p) ==
    /\ proc[p].pc = "db_add"
    /\ PackageDb_save(p, [proc[p] EXCEPT !.db = @ \cup {proc[p].pkg_real_name}],
                      "install_return")
    /\ UNCHANGED <<remote, fnVars>>

\* install_package returns: to upgrade_package's loop, or to main
install_return(p) ==
    /\ proc[p].pc = "install_return"
    /\ proc' = [proc EXCEPT ![p].pc =
           IF proc[p].cmd = "upgrade" /\ proc[p].arg = <<>>
           THEN "upgrade_iter" ELSE "done"]
    /\ UNCHANGED <<remote, ledgerFile, lastWriter, fnVars>>

\* Mutant: a named upgrade does not ask whether the ledger holds the name
upgrade_load_unchecked(p) ==
    /\ proc[p].pc = "upgrade_load"
    /\ LET r == [proc[p] EXCEPT !.installed = PackageDb_load, !.reads = @ + 1]
       IN  proc' = [proc EXCEPT ![p] =
               IF r.arg = <<>>
               THEN [r EXCEPT !.todo = r.installed, !.pc = "upgrade_iter"]
               ELSE call_install([r EXCEPT !.out = @ \cup {"Upgrading"}], r.arg)]
    /\ UNCHANGED <<remote, ledgerFile, lastWriter, fnVars>>

\* main.rs:170-183 up to the first install_package call
upgrade_load(p) ==
    /\ proc[p].pc = "upgrade_load"
    /\ LET r == [proc[p] EXCEPT !.installed = PackageDb_load, !.reads = @ + 1]
       IN  proc' = [proc EXCEPT ![p] =
               IF r.arg = <<>>
               THEN [r EXCEPT !.todo = r.installed, !.pc = "upgrade_iter"]
               ELSE IF r.arg \in r.installed
               THEN call_install([r EXCEPT !.out = @ \cup {"Upgrading"}], r.arg)
               ELSE [r EXCEPT !.out = @ \cup {"not installed"},
                              !.res = "notinstalled", !.pc = "done"]]
    /\ UNCHANGED <<remote, ledgerFile, lastWriter, fnVars>>

\* main.rs:173-176: one turn of the loop over db.packages.iter(), a HashSet,
\* whose order is arbitrary
upgrade_iter(p) ==
    /\ proc[p].pc = "upgrade_iter"
    /\ \/ /\ proc[p].todo = {}
          /\ proc' = [proc EXCEPT ![p].pc = "done"]
       \/ \E installed_pkg \in proc[p].todo :
             proc' = [proc EXCEPT ![p] =
                 call_install([@ EXCEPT !.todo = @ \ {installed_pkg},
                                        !.out = @ \cup {"Upgrading"}],
                              installed_pkg)]
    /\ UNCHANGED <<remote, ledgerFile, lastWriter, fnVars>>

\* main.rs:185-198
search_repo(p) ==
    /\ proc[p].pc = "search"
    /\ \E fetched \in {None, Some(remote)} :
          LET found == find_packages_by_keyword(fetched, proc[p].arg)
          IN  proc' = [proc EXCEPT ![p] =
                  [@ EXCEPT !.fetches = @ + 1, !.pc = "done",
                            !.listed = IF found = None THEN <<>> ELSE found[1],
                            !.out = @ \cup
                                (IF found # None /\ found[1] # <<>>
                                 THEN {"Found packages"}
                                 ELSE {"No packages found"})]]
    /\ UNCHANGED <<remote, ledgerFile, lastWriter, fnVars>>

\* main.rs:219-232
list_packages(p) ==
    /\ proc[p].pc = "list"
    /\ \E fetched \in {None, Some(remote)} :
          LET pkgs == get_all_packages(fetched)
          IN  proc' = [proc EXCEPT ![p] =
                  [@ EXCEPT !.fetches = @ + 1, !.pc = "done",
                            !.listed = IF pkgs = None THEN <<>> ELSE pkgs[1],
                            !.out = @ \cup
                                (IF pkgs # None /\ pkgs[1] # <<>>
                                 THEN {"Available packages"}
                                 ELSE {"Failed to fetch package list"})]]
    /\ UNCHANGED <<remote, ledgerFile, lastWriter, fnVars>>

\* Mutant: the ledger is updated whatever the remover's exit status
remove_package_unchecked(p) ==
    /\ proc[p].pc = "remove_pacman"
    /\ \E status \in {"ok", "fail", "panic"} :
          LET r == [proc[p] EXCEPT !.spawns = IF status = "panic" THEN @ ELSE @ + 1,
                                   !.log = Append(@, <<"pacman", status>>)]
          IN  proc' = [proc EXCEPT ![p] =
                  IF status = "panic" THEN panic(r, "panic_spawn")
                  ELSE [r EXCEPT !.out = @ \cup {"Removed"}, !.pc = "remove_record"]]
    /\ UNCHANGED <<remote, ledgerFile, lastWriter, fnVars>>

\* main.rs:200-211 and 214-216
remove_package(p) ==
    /\ proc[p].pc = "remove_pacman"
    /\ \E status \in {"ok", "fail", "panic"} :
          LET r == [proc[p] EXCEPT !.spawns = IF status = "panic" THEN @ ELSE @ + 1,
                                   !.log = Append(@, <<"pacman", status>>)]
          IN  proc' = [proc EXCEPT ![p] =
                  CASE status = "ok" ->
                          [r EXCEPT !.out = @ \cup {"Removed"}, !.pc = "remove_record"]
                    [] status = "fail" ->
                          [r EXCEPT !.out = @ \cup {"Failed to remove package"},
                                    !.res = "rmfail", !.pc = "done"]
                    [] OTHER -> panic(r, "panic_spawn")]
    /\ UNCHANGED <<remote, ledgerFile, lastWriter, fnVars>>

\* main.rs:212
remove_record(p) ==
    /\ proc[p].pc = "remove_record"
    /\ proc' = [proc EXCEPT ![p] =
           [@ EXCEPT !.db = PackageDb_load, !.reads = @ + 1, !.pc = "db_remove"]]
    /\ UNCHANGED <<remote, ledgerFile, lastWriter, fnVars>>

\* main.rs:73-76, from main.rs:213
db_remove(p) ==
    /\ proc[p].pc = "db_remove"
    /\ PackageDb_save(p, [proc[p] EXCEPT !.db = @ \ {proc[p].pkg}], "done")
    /\ UNCHANGED <<remote, fnVars>>

\* The process ends (main returned, or the panic unwound)
exit(p) ==
    /\ proc[p].pc \in {"done", "panicked"}
    /\ proc' = [proc EXCEPT ![p] = IdleProc]
    /\ UNCHANGED <<remote, ledgerFile, lastWriter, fnVars>>

step(p) ==
    \/ install_find(p) \/ install_download(p) \/ install_validate(p)
    \/ install_pacman(p) \/ install_unzstd(p) \/ install_retry(p)
    \/ install_record(p) \/ db_add(p) \/ install_return(p)
    \/ upgrade_load(p) \/ upgrade_iter(p)
    \/ search_repo(p) \/ list_packages(p)
    \/ remove_package(p) \/ remove_record(p) \/ db_remove(p)
    \/ exit(p)

\* Invocations typed one after another: a process starts when none runs
main_alone(p) ==
    /\ \A q \in Procs : proc[q].pc = "idle"
    /\ main(p, CliInputs)

Next == \E p \in Procs : main_alone(p) \/ step(p)

Spec == Init /\ [][Next]_vars

\* The same, against the listing of the specification's scenario
InitScenario == Init /\ remote = ScenarioListing

SpecScenario == InitScenario /\ [][Next]_vars

\* Invocations from two terminals: nothing orders the two processes.  The
\* runs are those of the subcommands that write the ledger.
main_any(p) == main(p, WriterInputs)

step_writer(p) ==
    \/ install_find(p) \/ install_download(p) \/ install_validate(p)
    \/ install_pacman(p) \/ install_unzstd(p) \/ install_retry(p)
    \/ install_record(p) \/ db_add(p) \/ install_return(p)
    \/ remove_package(p) \/ remove_record(p) \/ db_remove(p)
    \/ exit(p)

NextConc == \E p \in Procs : main_any(p) \/ step_writer(p)

InitConc == Init /\ remote = ScenarioListing

SpecConc == InitConc /\ [][NextConc]_vars

---------------------------------------------------------------------------
(* Function-level runs of the matcher over every catalog up to MaxCat      *)

InitFn ==
    /\ fnCat \in Catalogs
    /\ fnOp = "none" /\ fnIn = <<>> /\ fnOut = None
    /\ remote = <<>> /\ ledgerFile = {} /\ lastWriter = 0
    /\ proc = [p \in Procs |-> IdleProc]

FnResolve ==
    /\ \E pkg \in Names :
          /\ fnIn' = pkg
          /\ fnOut' = find_package_file(Some(fnCat), pkg)
    /\ fnOp' = "resolve"
    /\ UNCHANGED <<fnCat, remote, ledgerFile, lastWriter, proc>>

FnFilter ==
    /\ \E keyword \in Keywords :
          /\ fnIn' = keyword
          /\ fnOut' = find_packages_by_keyword(Some(fnCat), keyword)
    /\ fnOp' = "filter"
    /\ UNCHANGED <<fnCat, remote, ledgerFile, lastWriter, proc>>

FnList ==
    /\ fnIn' = <<>>
    /\ fnOut' = get_all_packages(Some(fnCat))
    /\ fnOp' = "list"
    /\ UNCHANGED <<fnCat, remote, ledgerFile, lastWriter, proc>>

NextFn == FnResolve \/ FnFilter \/ FnList

SpecFn == InitFn /\ [][NextFn]_vars

---------------------------------------------------------------------------
(* Properties of the matcher (SpecFn) *)

Range(seq) == {seq[i] : i \in 1..Len(seq)}

\* The archive-filename grammar, stated by its parts: the ways to write f as
\* name "-" version "-" release "-" arch ".pkg.tar.zst" with a version of
\* digits and dots, a release of digits and arch any or x86_64
GrammarNames(f) ==
    LET dash == {i \in 1..Len(f) : f[i] = "-"}
    IN  {SubSeq(f, 1, a - 1) : a \in {a \in dash :
            /\ a > 1
            /\ \E b \in dash : \E c \in dash :
                  /\ a + 1 < b /\ b + 1 < c
                  /\ \A i \in (a + 1)..(b - 1) : f[i] \in Digits \cup {"."}
                  /\ \A i \in (b + 1)..(c - 1) : f[i] \in Digits
                  /\ \E arch \in {S_any, S_x86_64} :
                        SubSeq(f, c + 1, Len(f)) = arch \o S_ext}}

\* Two characters that are the same letter up to case
SameLetter(c, d) ==
    \/ c = d
    \/ \E k \in 1..Len(Uppers) : {c, d} = {Uppers[k], Lowers[k]}

ContainsIgnoringCase(name, keyword) ==
    \E off \in 0..(Len(name) - Len(keyword)) :
        \A i \in 1..Len(keyword) : SameLetter(name[off + i], keyword[i])

\* The named items of a catalog, in catalog order
RECURSIVE NamedEntries(_)
NamedEntries(items) ==
    IF items = <<>> THEN <<>>
    ELSE (IF Head(items) = None THEN <<>> ELSE Head(items)) \o NamedEntries(Tail(items))

KeywordEntry(f, keyword) ==
    \E name \in GrammarNames(f) : ContainsIgnoringCase(name, keyword)

RECURSIVE Selected(_, _)
Selected(entries, keyword) ==
    IF entries = <<>> THEN <<>>
    ELSE (IF KeywordEntry(Head(entries), keyword) THEN <<Head(entries)>> ELSE <<>>)
         \o Selected(Tail(entries), keyword)

SwapCase(s) ==
    [i \in 1..Len(s) |->
        IF \E k \in 1..Len(Uppers) : Uppers[k] = s[i]
        THEN Lowers[CHOOSE k \in 1..Len(Uppers) : Uppers[k] = s[i]]
        ELSE IF \E k \in 1..Len(Lowers) : Lowers[k] = s[i]
        THEN Uppers[CHOOSE k \in 1..Len(Lowers) : Lowers[k] = s[i]]
        ELSE s[i]]

\* C2: whenever resolve_exact (find_package_file) returns a filename, the
\* name the program extracts from it (install_package's 'name' group and
\* find_packages_by_keyword's 'pkg_name' group) is the requested name.
C2_ResolvedNameIsRequested ==
    (fnOp = "resolve" /\ fnOut # None) =>
        /\ re_install_name(fnOut[1]) = Some(fnIn)
        /\ re_keyword_pkg_name(fnOut[1]) = Some(fnIn)

---------------------------------------------------------------------------
(* Properties of the commands, one invocation at a time (Spec) *)

Last(seq) == seq[Len(seq)]

\* C1: every element of the persisted ledger is a logical package name,
\* never an archive filename: none ends in '.pkg.tar.zst' or in an
\* architecture suffix, whatever file resolve_exact returned.
C1_LedgerHoldsLogicalNames ==
    \A e \in ledgerFile :
        /\ ~ends_with(e, S_ext)
        /\ \A arch \in {S_any, S_x86_64} : ~ends_with(e, <<"-">> \o arch)

\* The failure outcomes of a finished command, read from what happened
InstallNotFound(r) == r.cmd = "install" /\ r.package_file = None
InstallInvalid(r) == r.cmd = "install" /\ "not a valid zstd archive" \in r.out
InstallerFailed(r) ==
    r.cmd = "install" /\ r.log # <<>> /\ Last(r.log)[2] = "fail"
RemoveFailed(r) == r.cmd = "remove" /\ r.log = << <<"pacman", "fail">> >>
UpgradeRefused(r) == r.cmd = "upgrade" /\ r.arg # <<>> /\ r.arg \notin r.installed

\* C3: a command that ends in failure (install: fetch or parse failed, name
\* not found, archive invalid, installer and fallback failed; remove: the
\* remover failed; upgrade(name): name not in the ledger) leaves the
\* persisted ledger as it was when the command started and writes nothing;
\* in the fetch/not-found case nothing is downloaded and no process is run.
C3_FailureLeavesLedger ==
    \A p \in Procs :
        LET r == proc[p]
        IN  (/\ r.pc = "done"
             /\ \/ InstallNotFound(r) \/ InstallInvalid(r) \/ InstallerFailed(r)
                \/ RemoveFailed(r) \/ UpgradeRefused(r))
            => /\ ledgerFile = r.ledger0
               /\ r.writes = 0
               /\ InstallNotFound(r) => (r.downloads = 0 /\ r.spawns = 0)
               /\ UpgradeRefused(r) =>
                     (r.fetches = 0 /\ r.downloads = 0 /\ r.spawns = 0)

\* C3 witness: an install whose installer, decompress and retry ran and
\* failed has ended, with a ledger that held a name before it
C3_Witness ==
    \E p \in Procs :
        /\ proc[p].pc = "done" /\ InstallerFailed(proc[p])
        /\ Len(proc[p].log) = 3
        /\ proc[p].ledger0 # {} /\ ledgerFile = proc[p].ledger0

\* C4: within one install the first installer failure triggers the
\* decompress-then-install fallback once and nothing after it: the installer
\* runs at most twice and the decompressor at most once, the decompressor
\* only after the first installer run failed and the second installer run
\* only after the decompressor succeeded, a failed decompress or failed
\* second run ends the install, and the ledger is read and written for
\* the add only after an installer run returned success.
C4_SingleFallback ==
    \A p \in Procs :
        LET r == proc[p]
            log == r.log
        IN  r.cmd \in {"install", "upgrade"} =>
            /\ Len(log) <= 3
            /\ Cardinality({i \in 1..Len(log) : log[i][1] = "pacman"}) <= 2
            /\ Cardinality({i \in 1..Len(log) : log[i][1] = "unzstd"}) <= 1
            /\ Len(log) >= 1 => log[1][1] = "pacman"
            /\ Len(log) >= 2 => (log[1] = <<"pacman", "fail">> /\ log[2][1] = "unzstd")
            /\ Len(log) >= 3 => (log[2] = <<"unzstd", "ok">> /\ log[3][1] = "pacman")
            /\ (Len(log) >= 2 /\ Last(log)[2] = "fail")
                   => r.pc \in {"install_return", "upgrade_iter", "done"}
            /\ r.pc \in {"install_record", "db_add"} => Last(log) = <<"pacman", "ok">>
            /\ (r.cmd = "install" /\ r.writes > 0) => Last(log) = <<"pacman", "ok">>

\* C4 witness: an install that took the fallback and recorded the package
C4_Witness ==
    \E p \in Procs :
        /\ proc[p].cmd = "install" /\ proc[p].pc = "done"
        /\ proc[p].log = << <<"pacman", "fail">>, <<"unzstd", "ok">>, <<"pacman", "ok">> >>
        /\ proc[p].writes = 1
        /\ proc[p].pkg_real_name \in ledgerFile

\* C5: in install and in remove the success message is never emitted in a
\* run in which the ledger write fails.
C5_NoSuccessBeforePersisted ==
    \A p \in Procs :
        (proc[p].cmd \in {"install", "remove"} /\ proc[p].res = "panic_save")
            => proc[p].out \cap {"Installed", "Removed"} = {}

\* C6 as stated: every invocation performs at most one catalog fetch, one
\* download, two external process invocations, one ledger read and one
\* ledger write.
C6_AsStated ==
    \A p \in Procs :
        /\ proc[p].fetches <= 1 /\ proc[p].downloads <= 1
        /\ proc[p].spawns <= 2
        /\ proc[p].reads <= 1 /\ proc[p].writes <= 1

\* C6 amended: each run of install performs at most one catalog fetch, one
\* download, three external process invocations (installer, decompressor,
\* installer) and one ledger read and write; search and list perform one
\* fetch and nothing else; remove runs one process and reads and writes the
\* ledger at most once; upgrade reads the ledger once itself and then runs
\* one install per dispatched name: one for a named package, one per ledger
\* name without a name.
C6_PerInstallBounds ==
    \A p \in Procs :
        LET r == proc[p]
            n == r.installs
        IN  /\ r.cmd = "install" => n = 1
            /\ r.cmd = "upgrade" =>
                  n <= (IF r.arg = <<>> THEN Cardinality(r.installed) ELSE 1)
            /\ r.cmd \in {"install", "upgrade"} =>
                  /\ r.fetches <= n /\ r.downloads <= n /\ r.writes <= n
                  /\ r.spawns <= 3 * n /\ Len(r.log) <= 3
                  /\ r.reads <= n + (IF r.cmd = "upgrade" THEN 1 ELSE 0)
            /\ r.cmd \in {"search", "list"} =>
                  /\ r.fetches <= 1
                  /\ r.downloads = 0 /\ r.spawns = 0 /\ r.reads = 0 /\ r.writes = 0
            /\ r.cmd = "remove" =>
                  /\ r.fetches = 0 /\ r.downloads = 0
                  /\ r.spawns <= 1 /\ r.reads <= 1 /\ r.writes <= 1

\* C6 witness: upgrade without a name over a ledger of two names ran two
\* installs, fetched twice, read the ledger three times and wrote it twice
C6_Witness ==
    \E p \in Procs :
        /\ proc[p].cmd = "upgrade" /\ proc[p].arg = <<>> /\ proc[p].pc = "done"
        /\ Cardinality(proc[p].installed) = 2
        /\ proc[p].installs = 2 /\ proc[p].fetches = 2 /\ proc[p].downloads = 2
        /\ proc[p].spawns >= 4 /\ proc[p].reads = 3 /\ proc[p].writes = 2

\* C7: upgrade without a name invokes install once for every name of the
\* ledger as loaded at the start and for nothing else; upgrade with a name
\* invokes install for that name if and only if the loaded ledger holds it,
\* and otherwise fetches, downloads, spawns and writes nothing.
C7_UpgradeDispatch ==
    \A p \in Procs :
        LET r == proc[p]
        IN  (r.cmd = "upgrade" /\ r.pc # "upgrade_load") =>
            /\ r.installed = r.ledger0
            /\ r.installs = Cardinality(r.called)
            /\ r.arg = <<>> =>
                  /\ r.called \cup r.todo = r.installed
                  /\ r.called \cap r.todo = {}
                  /\ r.pc = "done" => r.called = r.installed
            /\ (r.arg # <<>> /\ r.arg \in r.installed) => r.called = {r.arg}
            /\ (r.arg # <<>> /\ r.arg \notin r.installed) =>
                  /\ r.called = {} /\ r.pc = "done"
                  /\ r.fetches = 0 /\ r.downloads = 0 /\ r.spawns = 0
                  /\ r.writes = 0

\* C7 witness: upgrade without a name has gone through a ledger of two names
C7_Witness ==
    \E p \in Procs :
        /\ proc[p].cmd = "upgrade" /\ proc[p].arg = <<>> /\ proc[p].pc = "done"
        /\ proc[p].installed = {N_archcraft_fish, N_htop}
        /\ proc[p].called = {N_archcraft_fish, N_htop}
        /\ proc[p].installs = 2

\* C10: after install(p) completed successfully the persisted ledger holds
\* p, the name the user typed.
C10_InstalledNameInLedger ==
    \A p \in Procs :
        (proc[p].cmd = "install" /\ proc[p].pc = "done" /\ proc[p].res = "ok")
            => proc[p].arg \in ledgerFile

---------------------------------------------------------------------------
(* Properties of two concurrent invocations (SpecConc) *)

\* C8: nothing serializes two invocations: every save replaces the file by
\* the saving process's whole in-memory set, and nothing but a save changes
\* the file, so the file holds the last writer's set, whatever another
\* process saved since that set was loaded.
C8_LastWriterWins ==
    [][/\ \A p \in Procs :
             proc'[p].writes > proc[p].writes =>
                 (ledgerFile' = proc'[p].db /\ lastWriter' = p)
       /\ ledgerFile' # ledgerFile =>
             \E p \in Procs : proc'[p].writes > proc[p].writes]_vars

\* C8 witness: two installs of different packages both succeeded and the
\* file holds only the name of the one that saved last
C8_Witness ==
    \E p \in Procs : \E q \in Procs \ {p} :
        /\ proc[p].cmd = "install" /\ proc[p].pc = "done" /\ proc[p].res = "ok"
        /\ proc[q].cmd = "install" /\ proc[q].pc = "done" /\ proc[q].res = "ok"
        /\ proc[p].pkg_real_name = N_archcraft_fish
        /\ proc[q].pkg_real_name = N_htop
        /\ lastWriter = q
        /\ ledgerFile = {N_htop}

=============================================================================
